---- MODULE Spec2Model ----
(***************************************************************************)
(* Model of tools/acme_account_rollover.py: the ACME account key rollover  *)
(* run of account_rollover(), its closures _get_private_acme_signature,    *)
(* _sign_request and _send_signed_request, and the ACME server it talks    *)
(* to.  Python dicts are functions whose domain is the set of keys that    *)
(* are present; text produced by an encoder is a tuple tagged with the     *)
(* encoder (the empty text is the empty tuple).                            *)
(***************************************************************************)
EXTENDS Integers, Sequences, FiniteSets, TLC

VARIABLES
    pc,                          \* position of account_rollover in its body
    old_accountkeypath,          \* argument
    new_accountkeypath,          \* argument
    timeout_arg,                 \* args.timeout, the --timeout option
    timeout,                     \* argument: <<>> is None, <<t>> is t seconds
    acme_config,                 \* the directory document
    private_acme_old_signature,  \* Signing Identity of the old key
    private_acme_new_signature,  \* Signing Identity of the new key
    nonce,                       \* <<>> is None, <<n>> is the string n
    http_response,               \* <<>> before the first response
    result,                      \* decoded body of the last response
    inner_payload,               \* <<>> before the inner JWS is signed
    error,                       \* the exception that ended the run
    calls,                       \* network calls issued, in order
    signed,                      \* headers and JWS built by _sign_request
    accountKey                   \* server side: the JWK the account is bound to

argvars == <<old_accountkeypath, new_accountkeypath, timeout_arg, timeout>>
idvars == <<private_acme_old_signature, private_acme_new_signature>>
vars == <<pc, old_accountkeypath, new_accountkeypath, timeout_arg, timeout,
          acme_config,
          private_acme_old_signature, private_acme_new_signature, nonce,
          http_response, result, inner_payload, error, calls, signed,
          accountKey>>

----------------------------------------------------------------------------
(* Bounds of the model *)

MaxNonce == 2      \* distinct non-empty Replay-Nonce values
MaxAcct == 1       \* distinct Location (account URL) values

Urls == {"https://acme/a", "https://acme/b"}
Nonces == {""} \cup {"nonce" \o ToString(i) : i \in 1..MaxNonce}
AccountUrls == {"https://acme/acct/" \o ToString(i) : i \in 1..MaxAcct}
KeyPaths == {"account.key", "newaccount.key"}
StatusCodes == {200, 201, 403}
Bodies == {"json", "nonjson", "empty"}
DirKeys == {"newNonce", "newAccount", "keyChange"}

(* line 175-177: --timeout, type=int, default=10 *)
DefaultTimeout == 10
TimeoutArgs == {0, DefaultTimeout}

----------------------------------------------------------------------------
(* Python values *)

EmptyDict == [k \in {} |-> ""]
Has(d, k) == k \in DOMAIN d
Del(d, k) == [x \in (DOMAIN d) \ {k} |-> d[x]]
Put(d, k, v) == [x \in (DOMAIN d) \cup {k} |-> IF x = k THEN v ELSE d[x]]

(* a value with its Python type: tuples compare their types first *)
PyNone == <<"none", "">>
PyStr(s) == <<"str", s>>
PyDict(d) == <<"dict", d>>
PyType(value) == value[1]
PyValue(value) == value[2]

NoError == [type |-> "none", status |-> 0, body |-> PyNone]
Raise(type) == [type |-> type, status |-> 0, body |-> PyNone]

(* line 69: raise RuntimeError("Unknown keypath to sign request") *)
UnknownKeyError ==
    [type |-> "RuntimeError", status |-> 0,
     body |-> PyStr("Unknown keypath to sign request")]

(* no exception and no return: the call in progress never comes back *)
Waiting == [type |-> "waiting", status |-> 0, body |-> PyNone]

(* the exception a step leaves in the run, none while it waits *)
Exception(err) == IF err.type = "waiting" THEN NoError ELSE err

(* base64.urlsafe_b64encode(text) without its "=" padding *)
_b64(text) == <<"b64url", text>>

(* json.dumps(value).encode("utf8") *)
JsonDumps(value) == <<"json", value>>

----------------------------------------------------------------------------
(* The private keys on disk and what openssl prints for them *)

KeyFile(keypath) ==
    IF keypath = "account.key"
    THEN [modulus |-> <<11, 11, 0, 1>>, publicExponent |-> 65537]
    ELSE [modulus |-> <<12, 9, 0, 7>>, publicExponent |-> 3]

RECURSIVE HexDigits(_)
(* "{0:x}".format(n) as a sequence of hexadecimal digits *)
HexDigits(n) ==
    IF n < 16 THEN <<n>> ELSE Append(HexDigits(n \div 16), n % 16)

(* "0{0}".format(pub_exp) if len(pub_exp) % 2 else pub_exp *)
EvenHex(digits) == IF Len(digits) % 2 = 1 THEN <<0>> \o digits ELSE digits

(* binascii.unhexlify: two digits per byte *)
Unhexlify(digits) ==
    [i \in 1..(Len(digits) \div 2) |-> 16 * digits[2 * i - 1] + digits[2 * i]]

(* _get_private_acme_signature: the header template of a key, without kid *)
_get_private_acme_signature(accountkeypath) ==
    [alg |-> "RS256",
     jwk |-> [e |-> _b64(Unhexlify(EvenHex(HexDigits(
                        KeyFile(accountkeypath).publicExponent)))),
              kty |-> "RSA",
              n |-> _b64(Unhexlify(KeyFile(accountkeypath).modulus))]]

(* openssl dgst -sha256 -sign keypath over the given text *)
OpensslDgstSign(keypath, text) == <<"sha256-rsa", KeyFile(keypath), text>>

----------------------------------------------------------------------------
(* HTTP responses *)

HeaderSets ==
    {h \in UNION {[S -> Nonces \cup AccountUrls] :
                    S \in SUBSET {"Replay-Nonce", "Location"}} :
        /\ (Has(h, "Replay-Nonce") => h["Replay-Nonce"] \in Nonces)
        /\ (Has(h, "Location") => h["Location"] \in AccountUrls)}

Responses == [status : StatusCodes, headers : HeaderSets, body : Bodies]

(* answers of the newNonce endpoint: 204, no body, no Location *)
NonceResponses ==
    {[status |-> 204, headers |-> h, body |-> "empty"] :
        h \in {x \in HeaderSets : ~Has(x, "Location")}}

(* what the server does with a request: <<>> the connection fails, <<r>> it
   answers r, NeverAnswers it accepts the request and stays silent *)
NeverAnswers == <<"never", "answers">>
IsSilent(out) == Len(out) = 2

(* main() with the timeout option dropped: account_rollover gets None *)
MainTimeoutIgnored(arg) == <<>>

(* line 181: args.timeout or None *)
MainTimeout(arg) == IF arg = 0 THEN <<>> ELSE <<arg>>

(* timeout=None: requests waits for the answer as long as it takes *)
Blocks(out) == IsSilent(out) /\ timeout = <<>>

(* what requests hands back: a silent server ends as a Timeout exception
   without a response once the timeout has passed *)
ClientSees(out) == IF IsSilent(out) THEN <<>> ELSE out

(* requests.get on newNonce *)
GetOutcomes == {<<>>, NeverAnswers} \cup {<<r>> : r \in NonceResponses}

(* line 100-103: requests.post; after the try statement `response` is None
   (requests.post raised and error.response is None), the response
   returned, or the response attached to the exception *)
PostOutcomes == {<<>>, NeverAnswers} \cup {<<r>> : r \in Responses}

(* truth value of a requests.Response: Response.__bool__ is Response.ok,
   which is False for status codes 400..599 *)
ResponseBool(r) == r.status < 400

(* `if response:` with response possibly None *)
HaveResponse(response) == response # <<>> /\ ResponseBool(response[1])

(* response.json(), or json.dumps({}) when the body is empty or not JSON *)
ResponseJson(r) ==
    IF r.body = "json" THEN PyDict([detail |-> "body"]) ELSE PyStr("{}")

(* NonceTruthy that only tests for None *)
NonceTruthyNotNone(nc) == nc # <<>>

(* truth value of the nonlocal nonce: None and "" are false *)
NonceTruthy(nc) == nc # <<>> /\ nc[1] # ""

(* ReplayNonceMissing of a lookup with headers.get: never raises *)
ReplayNonceOptional(response) == FALSE

(* line 105: response.headers['Replay-Nonce'] raises KeyError *)
ReplayNonceMissing(response) == ~Has(response.headers, "Replay-Nonce")

(* ReplayNonce that leaves the nonlocal nonce as it is *)
ReplayNonceKept(response) == nonce

(* line 105: the value assigned to the nonlocal nonce *)
ReplayNonce(response) ==
    IF Has(response.headers, "Replay-Nonce")
    THEN <<response.headers["Replay-Nonce"]>>
    ELSE <<>>

----------------------------------------------------------------------------
(* _sign_request *)

(* HasEndpoint of a lookup that falls back to a default instead of raising *)
HasEndpointOrDefault(key) == TRUE

(* acme_config[key] raises KeyError when the directory lacks the key *)
HasEndpoint(key) == Has(acme_config, key)

(* the value of acme_config[key] where it does not raise *)
Endpoint(key) == IF Has(acme_config, key) THEN acme_config[key] ELSE ""

(* Payload64 without the test for the sentinel *)
Payload64NoSentinel(payload) == _b64(JsonDumps(payload))

(* line 60-63: "" only for the POST-as-GET sentinel *)
Payload64(payload) ==
    IF PyType(payload) = "str" /\ PyValue(payload) = ""
    THEN <<>>
    ELSE _b64(JsonDumps(payload))

(* KnownKeypath without the elif branch of the old key *)
KnownKeypathNewOnly(keypath) == keypath = new_accountkeypath

(* line 64-69: the keypath is one of the two account keys *)
KnownKeypath(keypath) ==
    keypath = new_accountkeypath \/ keypath = old_accountkeypath

(* HeaderTemplate with the two identities exchanged *)
HeaderTemplateSwapped(keypath) ==
    IF keypath = new_accountkeypath
    THEN private_acme_old_signature
    ELSE private_acme_new_signature

(* line 64-67: deep copy of the key's Signing Identity, new key tested first *)
HeaderTemplate(keypath) ==
    IF keypath = new_accountkeypath
    THEN private_acme_new_signature
    ELSE private_acme_old_signature

(* SelectKeyField that tests only is_inner and the kid's presence *)
SelectKeyFieldByKid(protected, url, is_inner) ==
    IF is_inner \/ ~Has(protected, "kid")
    THEN IF Has(protected, "kid") THEN Del(protected, "kid") ELSE protected
    ELSE Del(protected, "jwk")

(* SelectKeyField that forgets to drop kid when it keeps jwk *)
SelectKeyFieldKeepsKid(protected, url, is_inner) ==
    IF is_inner \/ url = Endpoint("newAccount")
    THEN protected
    ELSE Del(protected, "jwk")

(* line 71-75: jwk for an inner JWS or the newAccount URL, kid otherwise *)
SelectKeyField(protected, url, is_inner) ==
    IF is_inner \/ url = Endpoint("newAccount")
    THEN IF Has(protected, "kid") THEN Del(protected, "kid") ELSE protected
    ELSE Del(protected, "jwk")

(* ProtectedHeader that always names the newAccount URL *)
ProtectedHeaderFixedUrl(url, keypath, is_inner, nonceValue) ==
    LET selected == SelectKeyField(HeaderTemplate(keypath), url, is_inner)
        withNonce == IF ~is_inner
                     THEN Put(selected, "nonce", nonceValue)
                     ELSE selected
    IN  Put(withNonce, "url", Endpoint("newAccount"))

(* line 64-84: the protected header; nonceValue is what `nonce or GET` gave *)
ProtectedHeader(url, keypath, is_inner, nonceValue) ==
    LET selected == SelectKeyField(HeaderTemplate(keypath), url, is_inner)
        withNonce == IF ~is_inner
                     THEN Put(selected, "nonce", nonceValue)
                     ELSE selected
    IN  Put(withNonce, "url", url)

(* line 85-90: the JWS message *)
Jws(protected, payload, keypath) ==
    LET protected64 == _b64(JsonDumps(protected))
        payload64 == Payload64(payload)
    IN  [protected |-> protected64,
         payload |-> payload64,
         signature |-> _b64(OpensslDgstSign(keypath,
                                <<protected64, ".", payload64>>))]

Call(step, method, url, jose, response) ==
    [step |-> step, method |-> method, url |-> url, jose |-> jose,
     response |-> response]

(* StoredIdentity of a template used without copying it: the edits of the
   header land in the stored Signing Identity *)
StoredIdentityAliased(template, protected) == protected

(* line 65, 67: copy.deepcopy; the stored Signing Identity is the template,
   whatever is done to the protected header afterwards *)
StoredIdentity(template, protected) == template

SignOutcome(err, jose, newcalls, newsigned, oldid, newid) ==
    [error |-> err, jose |-> jose, calls |-> newcalls, signed |-> newsigned,
     old_identity |-> oldid, new_identity |-> newid]

(* line 85-90: the header is built; openssl signs it, or fails; the stored
   identity of the key is what the deep copy left of it *)
SignBuilt(url, keypath, payload, is_inner, gets, protected, jose) ==
    LET stored == StoredIdentity(HeaderTemplate(keypath), protected)
    IN  SignOutcome(
            IF jose = <<>> THEN Raise("IOError") ELSE NoError,
            jose, gets,
            <<[url |-> url, keypath |-> keypath, payload |-> payload,
               is_inner |-> is_inner, protected |-> protected,
               jose |-> jose]>>,
            IF keypath = new_accountkeypath
            THEN private_acme_old_signature ELSE stored,
            IF keypath = new_accountkeypath
            THEN stored ELSE private_acme_new_signature)

(* line 64-90: the header with the nonce in place, then the signature *)
SignHeader(url, keypath, payload, is_inner, gets, sslOk, protected) ==
    SignBuilt(url, keypath, payload, is_inner, gets, protected,
              IF sslOk THEN <<Jws(protected, payload, keypath)>> ELSE <<>>)

(* line 77-83: nonce or the Replay-Nonce of the GET, "" standing for the
   absent nonce of an inner JWS *)
NonceValue(is_inner, getOut) ==
    IF is_inner THEN ""
    ELSE IF NonceTruthy(nonce) THEN nonce[1]
    ELSE getOut[1].headers["Replay-Nonce"]

(* what a call of _sign_request leaves when it raises before the header is
   complete *)
SignRaised(err, gets) ==
    SignOutcome(err, <<>>, gets, <<>>, private_acme_old_signature,
                private_acme_new_signature)

(* line 77-82: the newNonce GET, issued for an outer JWS while the nonce is
   None or empty *)
NonceGet(is_inner, getOut) ==
    IF ~is_inner /\ ~NonceTruthy(nonce)
    THEN <<Call("newNonce", "GET", Endpoint("newNonce"), <<>>, getOut)>>
    ELSE <<>>

(* _sign_request as a whole.  getOut is the outcome of the newNonce GET,
   consulted only when it is issued; sslOk is whether openssl dgst exits 0. *)
_sign_request(url, keypath, payload, is_inner, getOut, sslOk) ==
    LET needGet == ~is_inner /\ ~NonceTruthy(nonce)
    IN  IF ~KnownKeypath(keypath)
        THEN SignRaised(UnknownKeyError, <<>>)
        ELSE IF needGet /\ ~HasEndpoint("newNonce")
        THEN SignRaised(Raise("KeyError"), <<>>)
        ELSE IF needGet /\ Blocks(getOut)
        THEN SignRaised(Waiting, NonceGet(is_inner, getOut))
        ELSE IF needGet /\ ClientSees(getOut) = <<>>
        THEN SignRaised(Raise("RequestException"), NonceGet(is_inner, getOut))
        ELSE IF needGet /\ ~Has(getOut[1].headers, "Replay-Nonce")
        THEN SignRaised(Raise("KeyError"), NonceGet(is_inner, getOut))
        ELSE SignHeader(url, keypath, payload, is_inner,
                        NonceGet(is_inner, getOut), sslOk,
                        ProtectedHeader(url, keypath, is_inner,
                                        NonceValue(is_inner, getOut)))

(* the outcomes of the newNonce GET that a non-inner signing can see: the
   GET is issued only while the nonce is None or empty *)
GetChoices(gets) == IF NonceTruthy(nonce) THEN {<<>>} ELSE gets

(* the outcomes of the POST that follows a signing: none when signing raised *)
PostChoices(s, posts) == IF s.error.type = "none" THEN posts ELSE {<<>>}

----------------------------------------------------------------------------
(* _send_signed_request *)

SendOutcome(err, newnonce, response, res, s) ==
    [error |-> err, nonce |-> newnonce, response |-> response,
     result |-> res, calls |-> s.calls, signed |-> s.signed,
     old_identity |-> s.old_identity, new_identity |-> s.new_identity]

(* PostCalls that posts a second time when the first post got no response *)
PostCallsRetry(step, url, jose, postOut) ==
    IF Len(postOut) # 1
    THEN <<Call(step, "POST", url, jose, <<>>),
           Call(step, "POST", url, jose, postOut)>>
    ELSE <<Call(step, "POST", url, jose, postOut)>>

(* line 100-103: requests.post is called once, whatever its outcome *)
PostCalls(step, url, jose, postOut) ==
    <<Call(step, "POST", url, jose, postOut)>>

(* line 99-111: s is what _sign_request gave, postOut the outcome of
   requests.post *)
SendSigned(step, url, s, postOut) ==
    LET sent == [s EXCEPT !.calls = @ \o PostCalls(step, url, s.jose, postOut)]
    IN  IF s.error.type # "none"
        THEN SendOutcome(s.error, nonce, <<>>, PyNone, s)
        ELSE IF Blocks(postOut)
        THEN SendOutcome(Waiting, nonce, <<>>, PyNone, sent)
        ELSE IF ~HaveResponse(ClientSees(postOut))
        THEN SendOutcome(Raise("RuntimeError"), nonce, <<>>, PyNone, sent)
        ELSE IF ReplayNonceMissing(postOut[1])
        THEN SendOutcome(Raise("KeyError"), nonce, <<>>, PyNone, sent)
        ELSE SendOutcome(NoError, ReplayNonce(postOut[1]), postOut,
                         ResponseJson(postOut[1]), sent)

(* step names the call site; postOut is the outcome of requests.post *)
_send_signed_request(step, url, keypath, payload, getOut, sslOk, postOut) ==
    SendSigned(step, url,
               _sign_request(url, keypath, payload, FALSE, getOut, sslOk),
               postOut)

----------------------------------------------------------------------------
(* account_rollover *)

AcmeDirectoryUrl == "https://acme/directory"

NewNonceUrl == "https://acme/nonce"

(* the directory documents a server may publish: any of the keys may miss;
   newAccount and keyChange may be the same URL or different ones *)
Directories ==
    {d \in UNION {[S -> Urls \cup {NewNonceUrl}] : S \in SUBSET DirKeys} :
        \A k \in DOMAIN d : d[k] = NewNonceUrl <=> k = "newNonce"}

DirectoryResponse(body) == [status |-> 200, headers |-> EmptyDict, body |-> body]

(* ExitPc of a run that starts over after an exception *)
ExitPcRestart(err, nextpc) ==
    IF err.type = "none" THEN nextpc
    ELSE IF err.type = "waiting" THEN "blocked"
    ELSE "fetch_directory"

(* an exception that leaves account_rollover ends the run *)
ExitPc(err, nextpc) ==
    IF err.type = "none" THEN nextpc
    ELSE IF err.type = "waiting" THEN "blocked"
    ELSE "failed"

Init ==
    /\ pc = "fetch_directory"
    /\ old_accountkeypath = "account.key"
    /\ new_accountkeypath \in KeyPaths
    /\ timeout_arg \in TimeoutArgs
    /\ timeout = MainTimeout(timeout_arg)
    /\ acme_config = EmptyDict
    /\ private_acme_old_signature = EmptyDict
    /\ private_acme_new_signature = EmptyDict
    /\ nonce = <<>>
    /\ http_response = <<>>
    /\ result = PyNone
    /\ inner_payload = <<>>
    /\ error = NoError
    /\ calls = <<>>
    /\ signed = <<>>
    /\ accountKey = _get_private_acme_signature(old_accountkeypath).jwk

(* line 118: requests.get(acme_directory).json(), the server publishing
   one of the given directory documents *)
FetchDirectoryFrom(directories) ==
    /\ pc = "fetch_directory"
    /\ \/ /\ calls' = Append(calls, Call("directory", "GET", AcmeDirectoryUrl,
                                          <<>>, <<>>))
          /\ error' = Raise("RequestException")
          /\ pc' = ExitPc(error', "old_signature")
          /\ UNCHANGED acme_config
       \/ LET err == IF Blocks(NeverAnswers)
                     THEN Waiting
                     ELSE Raise("RequestException")
          IN  /\ calls' = Append(calls, Call("directory", "GET",
                                    AcmeDirectoryUrl, <<>>, NeverAnswers))
              /\ error' = Exception(err)
              /\ pc' = ExitPc(err, "old_signature")
              /\ UNCHANGED acme_config
       \/ /\ calls' = Append(calls, Call("directory", "GET", AcmeDirectoryUrl,
                                  <<>>, <<DirectoryResponse("nonjson")>>))
          /\ error' = Raise("ValueError")
          /\ pc' = ExitPc(error', "old_signature")
          /\ UNCHANGED acme_config
       \/ \E directory \in directories :
          /\ calls' = Append(calls, Call("directory", "GET", AcmeDirectoryUrl,
                                  <<>>, <<DirectoryResponse("json")>>))
          /\ acme_config' = directory
          /\ error' = NoError
          /\ pc' = ExitPc(error', "old_signature")
    /\ UNCHANGED <<argvars, idvars, nonce, http_response, result,
                   inner_payload, signed, accountKey>>

FetchDirectory == FetchDirectoryFrom(Directories)

(* line 121: openssl rsa on the old key; keyOut is "ok", or the exception
   of a failed openssl run or of an output the regular expression misses *)
GetOldSignature ==
    /\ pc = "old_signature"
    /\ \E keyOut \in {"ok", "IOError", "ValueError"} :
          /\ error' = IF keyOut = "ok" THEN NoError ELSE Raise(keyOut)
          /\ private_acme_old_signature' =
                IF keyOut = "ok"
                THEN _get_private_acme_signature(old_accountkeypath)
                ELSE private_acme_old_signature
          /\ pc' = ExitPc(error', "new_signature")
    /\ UNCHANGED <<argvars, acme_config, private_acme_new_signature, nonce,
                   http_response, result, inner_payload, calls, signed,
                   accountKey>>

(* line 124: openssl rsa on the new key *)
GetNewSignature ==
    /\ pc = "new_signature"
    /\ \E keyOut \in {"ok", "IOError", "ValueError"} :
          /\ error' = IF keyOut = "ok" THEN NoError ELSE Raise(keyOut)
          /\ private_acme_new_signature' =
                IF keyOut = "ok"
                THEN _get_private_acme_signature(new_accountkeypath)
                ELSE private_acme_new_signature
          /\ pc' = ExitPc(error', "lookup")
    /\ UNCHANGED <<argvars, acme_config, private_acme_old_signature, nonce,
                   http_response, result, inner_payload, calls, signed,
                   accountKey>>


(* LookupError that accepts every status requests counts as ok *)
LookupErrorAnyOk(response, res) ==
    IF Has(response.headers, "Location") THEN NoError ELSE Raise("KeyError")

(* line 129-134: what the status test of the account lookup raises *)
LookupError(response, res) ==
    IF response.status = 200
    THEN IF Has(response.headers, "Location")
         THEN NoError
         ELSE Raise("KeyError")
    ELSE [type |-> "ValueError", status |-> response.status, body |-> res]

(* line 129-134: out is what _send_signed_request gave; err is what the
   status test and the Location lookup raise *)
LookupInstall(out, err) ==
    /\ error' = Exception(err)
    /\ pc' = ExitPc(err, "inner")
    /\ nonce' = out.nonce
    /\ calls' = calls \o out.calls
    /\ signed' = signed \o out.signed
    /\ http_response' = IF out.error.type = "none"
                        THEN out.response ELSE http_response
    /\ result' = IF out.error.type = "none" THEN out.result ELSE result
    /\ private_acme_old_signature' =
            IF err.type = "none"
            THEN Put(out.old_identity, "kid",
                     out.response[1].headers["Location"])
            ELSE out.old_identity
    /\ private_acme_new_signature' =
            IF err.type = "none"
            THEN Put(out.new_identity, "kid",
                     out.response[1].headers["Location"])
            ELSE out.new_identity

(* line 127-134: what follows the return of _send_signed_request *)
LookupStep(out) ==
    LookupInstall(out, IF out.error.type = "none"
                       THEN LookupError(out.response[1], out.result)
                       ELSE out.error)

(* line 127-134: look the account up with the old key and install its kid,
   the server answering the GET and the POST with one of the given outcomes *)
LookupAccountWith(gets, posts) ==
    /\ pc = "lookup"
    /\ IF ~HasEndpoint("newAccount")
       THEN /\ error' = Raise("KeyError")
            /\ pc' = ExitPc(error', "inner")
            /\ UNCHANGED <<idvars, nonce, http_response, result, calls, signed>>
       ELSE \E getOut \in GetChoices(gets), sslOk \in BOOLEAN :
            \E postOut \in PostChoices(_sign_request(
                    Endpoint("newAccount"), old_accountkeypath,
                    PyDict([onlyReturnExisting |-> TRUE]),
                    FALSE, getOut, sslOk), posts) :
                LookupStep(_send_signed_request("newAccount",
                            Endpoint("newAccount"), old_accountkeypath,
                            PyDict([onlyReturnExisting |-> TRUE]),
                            getOut, sslOk, postOut))
    /\ UNCHANGED <<argvars, acme_config, inner_payload, accountKey>>

LookupAccount == LookupAccountWith(GetOutcomes, PostOutcomes)

(* line 140-142: s is what _sign_request gave for the inner JWS *)
InnerStep(s) ==
    /\ error' = s.error
    /\ inner_payload' = s.jose
    /\ calls' = calls \o s.calls
    /\ signed' = signed \o s.signed
    /\ private_acme_old_signature' = s.old_identity
    /\ private_acme_new_signature' = s.new_identity

(* line 140-142: the inner JWS, signed by the new key *)
SignInner ==
    /\ pc = "inner"
    /\ IF ~HasEndpoint("keyChange")
       THEN /\ error' = Raise("KeyError")
            /\ UNCHANGED <<idvars, inner_payload, calls, signed>>
       ELSE \E sslOk \in BOOLEAN :
            InnerStep(_sign_request(Endpoint("keyChange"),
                        new_accountkeypath,
                        PyDict([account |-> private_acme_old_signature["kid"],
                                oldKey |-> private_acme_old_signature["jwk"]]),
                        TRUE, <<>>, sslOk))
    /\ pc' = ExitPc(error', "key_change")
    /\ UNCHANGED <<argvars, acme_config, nonce, http_response, result,
                   accountKey>>

(* KeyChangeError that also rejects a body that is no JSON object *)
KeyChangeErrorOnBody(response, res) ==
    IF response.status # 200 \/ PyType(res) # "dict"
    THEN [type |-> "ValueError", status |-> response.status, body |-> res]
    ELSE NoError

(* KeyChangeError with the comparison inverted *)
KeyChangeErrorInverted(response, res) ==
    IF response.status = 200
    THEN [type |-> "ValueError", status |-> response.status, body |-> res]
    ELSE NoError

(* line 148-150: what the status test of the key change raises *)
KeyChangeError(response, res) ==
    IF response.status # 200
    THEN [type |-> "ValueError", status |-> response.status, body |-> res]
    ELSE NoError

(* The ACME server: the JWK the inner JWS of a key-change request proposes *)
ProposedKey(jose) == PyValue(jose.payload[2][2]).protected[2][2]["jwk"]

(* The ACME server commits a key change only together with a 200 answer;
   without an answer the client cannot tell whether it committed. *)
ServerMayCommit(posted, response, commit) ==
    /\ ~posted => ~commit
    /\ (posted /\ Len(response) = 1) => (commit <=> response[1].status = 200)

(* line 145-151: out is what _send_signed_request gave, err what the
   status test raises; the server commits or not *)
KeyChangeFinish(out, err, postOut, commit) ==
    /\ ServerMayCommit(out.calls # <<>>
                            /\ out.calls[Len(out.calls)].method = "POST",
                       postOut, commit)
    /\ error' = Exception(err)
    /\ pc' = ExitPc(err, "done")
    /\ private_acme_old_signature' = out.old_identity
    /\ private_acme_new_signature' = out.new_identity
    /\ nonce' = out.nonce
    /\ calls' = calls \o out.calls
    /\ signed' = signed \o out.signed
    /\ http_response' = IF out.error.type = "none"
                        THEN out.response ELSE http_response
    /\ result' = IF out.error.type = "none" THEN out.result ELSE result
    /\ accountKey' =
            IF commit
            THEN ProposedKey(out.calls[Len(out.calls)].jose[1])
            ELSE accountKey

(* line 145-151: what follows the return of _send_signed_request *)
KeyChangeStep(out, postOut, commit) ==
    KeyChangeFinish(out,
                    IF out.error.type = "none"
                    THEN KeyChangeError(out.response[1], out.result)
                    ELSE out.error,
                    postOut, commit)

(* line 145-151: the outer JWS, signed by the old key, sent to keyChange,
   the server answering the GET and the POST with one of the given outcomes *)
KeyChangeWith(gets, posts) ==
    /\ pc = "key_change"
    /\ \E getOut \in GetChoices(gets), sslOk \in BOOLEAN, commit \in BOOLEAN :
       \E postOut \in PostChoices(_sign_request(
                    Endpoint("keyChange"), old_accountkeypath,
                    PyDict(inner_payload[1]), FALSE, getOut, sslOk), posts) :
            KeyChangeStep(_send_signed_request("keyChange",
                            Endpoint("keyChange"), old_accountkeypath,
                            PyDict(inner_payload[1]), getOut, sslOk, postOut),
                          postOut, commit)
    /\ UNCHANGED <<argvars, acme_config, inner_payload>>

KeyChange == KeyChangeWith(GetOutcomes, PostOutcomes)

Next ==
    \/ FetchDirectory
    \/ GetOldSignature
    \/ GetNewSignature
    \/ LookupAccount
    \/ SignInner
    \/ KeyChange

Spec == Init /\ [][Next]_vars

----------------------------------------------------------------------------
(* Reading the run's history *)

CallsOf(step) == {i \in 1..Len(calls) : calls[i].step = step}
Posts == {i \in 1..Len(calls) : calls[i].method = "POST"}

(* the protected header a JWS message carries, decoded *)
HeaderOf(jose) == jose.protected[2][2]

(* the payload object a JWS message carries, decoded *)
PayloadOf(jose) == PyValue(jose.payload[2][2])

Answered(i) == Len(calls[i].response) = 1
StatusOf(i) == calls[i].response[1].status
HeadersOf(i) == calls[i].response[1].headers

OldJwk == _get_private_acme_signature(old_accountkeypath).jwk
NewJwk == _get_private_acme_signature(new_accountkeypath).jwk

(* the account lookup was answered 200 with a Location, now the kid of both
   Signing Identities *)
KidInstalledFrom(i) ==
    /\ Answered(i)
    /\ StatusOf(i) = 200
    /\ Has(HeadersOf(i), "Location")
    /\ Has(private_acme_old_signature, "kid")
    /\ Has(private_acme_new_signature, "kid")
    /\ private_acme_old_signature["kid"] = HeadersOf(i)["Location"]
    /\ private_acme_new_signature["kid"] = HeadersOf(i)["Location"]

----------------------------------------------------------------------------
(* C1: every protected header built by _sign_request carries exactly one of
   jwk and kid: jwk and no kid when the JWS is inner or the target is the
   directory's newAccount URL, kid and no jwk otherwise; this for every
   directory, also one whose newAccount and keyChange are the same URL. *)
C1_ExactlyOneOfJwkKid ==
    \A i \in 1..Len(signed) :
        LET h == signed[i].protected
            wantsJwk == signed[i].is_inner
                            \/ signed[i].url = Endpoint("newAccount")
        IN  /\ Has(h, "jwk") # Has(h, "kid")
            /\ wantsJwk => (Has(h, "jwk") /\ ~Has(h, "kid"))
            /\ ~wantsJwk => (Has(h, "kid") /\ ~Has(h, "jwk"))

(* all three headers of a run were built, under a directory whose newAccount
   and keyChange are one URL *)
C1_Witness ==
    /\ Len(signed) = 3
    /\ Has(acme_config, "keyChange")
    /\ Endpoint("newAccount") = Endpoint("keyChange")

(* C3: the key-change request is sent, and the inner JWS is signed, only
   after the account lookup was answered 200 and its Location was installed
   as kid; a failed account lookup is followed by neither. *)
C3_KeyChangeOnlyAfterLookup ==
    LET innerSigned == inner_payload # <<>>
                        \/ \E j \in 1..Len(signed) : signed[j].is_inner
    IN  /\ \A i \in CallsOf("keyChange") :
                \E j \in CallsOf("newAccount") : j < i /\ KidInstalledFrom(j)
        /\ innerSigned => \E j \in CallsOf("newAccount") : KidInstalledFrom(j)
        /\ (pc = "failed" /\ ~\E j \in CallsOf("newAccount") :
                                    Answered(j) /\ StatusOf(j) = 200)
                => (~innerSigned /\ CallsOf("keyChange") = {})

(* a key-change request was sent *)
C3_Witness == CallsOf("keyChange") # {}


(* the directory document was fetched and decoded *)
DirectoryFetched ==
    /\ Len(calls) >= 1
    /\ Answered(1)
    /\ calls[1].response[1].body = "json"

(* C5 as claimed: a directory that lacks newNonce, newAccount or keyChange
   ends the run right after the directory fetch, with no other network
   call. *)
C5_AsClaimed ==
    (DirectoryFetched /\ ~(DirKeys \subseteq DOMAIN acme_config))
        => Len(calls) = 1

(* C5 as amended: the directory is not validated when it is fetched.  A
   directory that lacks newAccount or newNonce makes the run fail with no
   network call beyond the directory fetch and nothing signed; one that
   lacks keyChange never sees an inner JWS signed or a key-change request
   sent and never reaches RolledOver, but the newNonce GET and the
   newAccount POST are made before the run fails. *)
C5_MissingEndpoint ==
    /\ (DirectoryFetched
            /\ (~Has(acme_config, "newAccount") \/ ~Has(acme_config, "newNonce")))
        => /\ Len(calls) = 1
           /\ signed = <<>>
           /\ pc \in {"old_signature", "new_signature", "lookup", "failed"}
    /\ (DirectoryFetched /\ ~Has(acme_config, "keyChange"))
        => /\ CallsOf("keyChange") = {}
           /\ inner_payload = <<>>
           /\ \A j \in 1..Len(signed) : ~signed[j].is_inner
           /\ pc \notin {"key_change", "done"}

(* a directory lacking only keyChange: the run failed on the missing key
   after the newNonce GET and the newAccount POST *)
C5_Witness ==
    /\ DirectoryFetched
    /\ DOMAIN acme_config = {"newNonce", "newAccount"}
    /\ pc = "failed"
    /\ error.type = "KeyError"
    /\ Len(calls) = 3
    /\ Answered(3) /\ StatusOf(3) = 200 /\ Has(HeadersOf(3), "Location")

(* C6 as claimed: after a 200 account lookup with Location L both Signing
   Identities have kid = L, and the outer key-change request sent afterwards
   has a protected header with kid = L and without jwk.  Stated for the
   lookup answers that carry a Replay-Nonce header, as every answer of an
   ACME server does. *)
C6_AsClaimed ==
    /\ \A j \in CallsOf("newAccount") :
        (Answered(j) /\ StatusOf(j) = 200 /\ Has(HeadersOf(j), "Location")
            /\ Has(HeadersOf(j), "Replay-Nonce"))
            => KidInstalledFrom(j)
    /\ \A i \in CallsOf("keyChange") :
        LET h == HeaderOf(calls[i].jose[1])
        IN  /\ Has(h, "kid")
            /\ ~Has(h, "jwk")
            /\ \E j \in CallsOf("newAccount") :
                    h["kid"] = HeadersOf(j)["Location"]

(* C6 as amended: when the account lookup returns 200 with Location L and
   with a Replay-Nonce header, both identities get kid = L; the outer
   key-change header has kid = L and no jwk when the directory's keyChange
   URL differs from its newAccount URL, and has the old key's jwk and no kid
   when the two URLs are the same. *)
C6_KidInstalledAndUsed ==
    /\ \A j \in CallsOf("newAccount") :
        (Answered(j) /\ StatusOf(j) = 200 /\ Has(HeadersOf(j), "Location")
            /\ Has(HeadersOf(j), "Replay-Nonce"))
            => KidInstalledFrom(j)
    /\ \A i \in CallsOf("keyChange") :
        LET h == HeaderOf(calls[i].jose[1])
        IN  IF Endpoint("keyChange") # Endpoint("newAccount")
            THEN /\ Has(h, "kid")
                 /\ ~Has(h, "jwk")
                 /\ \E j \in CallsOf("newAccount") :
                        j < i /\ h["kid"] = HeadersOf(j)["Location"]
            ELSE /\ Has(h, "jwk")
                 /\ ~Has(h, "kid")
                 /\ h["jwk"] = OldJwk

(* the outer key-change request was sent to a keyChange URL that is not the
   newAccount URL *)
C6_Witness ==
    /\ CallsOf("keyChange") # {}
    /\ Endpoint("keyChange") # Endpoint("newAccount")


(* C7: the inner JWS is signed with the new key, has the directory's
   keyChange URL as url, carries the new key's jwk and neither kid nor
   nonce, and its payload is exactly {account: the kid of the lookup,
   oldKey: the old key's JWK}; the outer JWS sent to keyChange is signed
   with the old key and has exactly this inner JWS as its payload. *)
C7_InnerAndOuterJws ==
    /\ inner_payload # <<>> =>
        LET inner == inner_payload[1]
            h == HeaderOf(inner)
        IN  /\ DOMAIN h = {"alg", "jwk", "url"}
            /\ h["url"] = acme_config["keyChange"]
            /\ h["jwk"] = NewJwk
            /\ h["alg"] = "RS256"
            /\ \E j \in CallsOf("newAccount") :
                inner.payload = _b64(JsonDumps(PyDict(
                    [account |-> HeadersOf(j)["Location"],
                     oldKey |-> OldJwk])))
            /\ inner.signature = _b64(OpensslDgstSign(new_accountkeypath,
                    <<inner.protected, ".", inner.payload>>))
    /\ \A i \in CallsOf("keyChange") :
        LET outer == calls[i].jose[1]
        IN  /\ inner_payload # <<>>
            /\ outer.payload = _b64(JsonDumps(PyDict(inner_payload[1])))
            /\ calls[i].url = acme_config["keyChange"]
            /\ HeaderOf(outer)["url"] = acme_config["keyChange"]
            /\ outer.signature = _b64(OpensslDgstSign(old_accountkeypath,
                    <<outer.protected, ".", outer.payload>>))

(* the key-change request was sent in a run whose two keys differ *)
C7_Witness ==
    /\ CallsOf("keyChange") # {}
    /\ old_accountkeypath # new_accountkeypath
    /\ OldJwk # NewJwk

(* the call made the run raise: no response, an undecodable directory, a
   missing Replay-Nonce or Location header, an unexpected status *)
CallFailed(i) ==
    \/ ~Answered(i)
    \/ calls[i].step = "directory" /\ calls[i].response[1].body # "json"
    \/ calls[i].step # "directory" /\ ~Has(HeadersOf(i), "Replay-Nonce")
    \/ calls[i].method = "POST" /\ StatusOf(i) # 200
    \/ calls[i].step = "newAccount" /\ ~Has(HeadersOf(i), "Location")

(* C10: no request is retried: the directory GET, the newAccount POST and
   the keyChange POST are each issued at most once, a call that failed
   (no response, a missing Replay-Nonce or Location, an undecodable
   directory, an unexpected status) is the last call of the run, and a run
   that raised has ended; a call that waits without timeout for a silent
   server is the last call as well. *)
C10_NoRetry ==
    /\ \A step \in {"directory", "newAccount", "keyChange"} :
        Cardinality(CallsOf(step)) <= 1
    /\ \A i \in 1..Len(calls) : CallFailed(i) => i = Len(calls)
    /\ \A i \in 1..Len(calls) :
        (CallFailed(i) /\ i = Len(calls)) =>
            \/ pc = "failed"
            \/ pc = "blocked" /\ IsSilent(calls[i].response)
    /\ error.type # "none" <=> pc = "failed"

(* the key-change POST got no response, after the directory GET, the
   newNonce GET and the newAccount POST: four calls and no fifth *)
C10_Witness ==
    /\ pc = "failed"
    /\ Len(calls) = 4
    /\ calls[4].step = "keyChange"
    /\ ~Answered(4)


(* C9 as claimed: the server-side account key differs from the old key only
   in runs that end in RolledOver, whatever the outcome of the key-change
   POST. *)
C9_AsClaimed == accountKey # OldJwk => pc = "done"

(* C9 as amended: the server-side account key differs from the old key only
   after the key-change POST was sent and the server answered it 200; such
   a run ends in RolledOver when that answer arrives with a Replay-Nonce
   header, and ends in Failed, with the key changed, when the answer is lost
   (timeout, no response) or arrives without a Replay-Nonce header; without
   a timeout a run whose answer never arrives waits forever.  A run
   that fails before the key-change POST is sent leaves the old key. *)
C9_KeyChangedOnlyByKeyChangePost ==
    /\ accountKey # OldJwk =>
        /\ accountKey = NewJwk
        /\ \E i \in CallsOf("keyChange") :
            \/ pc = "done" /\ Answered(i) /\ StatusOf(i) = 200
            \/ pc = "failed" /\ ~Answered(i)
            \/ pc = "blocked" /\ IsSilent(calls[i].response)
            \/ pc = "failed" /\ Answered(i) /\ StatusOf(i) = 200
                    /\ ~Has(HeadersOf(i), "Replay-Nonce")
    /\ CallsOf("keyChange") = {} => accountKey = OldJwk

(* the run failed after the account was identified and the server holds the
   new key: the answer to the key-change POST was lost *)
C9_Witness ==
    /\ pc = "failed"
    /\ accountKey # OldJwk
    /\ \E i \in CallsOf("keyChange") : ~Answered(i)

(* C2: an account lookup answered with a status other than 200 ends the run
   in Failed with an error that carries that status and the decoded body.
   Stated for the answers that carry a Replay-Nonce header, as every answer
   of an ACME server does. *)
C2_LookupStatusSurfaced ==
    \A j \in CallsOf("newAccount") :
        (Answered(j) /\ StatusOf(j) # 200
            /\ Has(HeadersOf(j), "Replay-Nonce")) =>
            /\ pc = "failed"
            /\ error.type = "ValueError"
            /\ error.status = StatusOf(j)
            /\ error.body = ResponseJson(calls[j].response[1])

(* C4: after a signed POST whose response carries a Replay-Nonce header,
   whatever its status, the current nonce is that header's value. *)
C4_NonceFollowsResponse ==
    \A i \in Posts :
        (/\ Answered(i)
         /\ Has(HeadersOf(i), "Replay-Nonce")
         /\ \A k \in Posts : k <= i)
            => nonce = <<HeadersOf(i)["Replay-Nonce"]>>

(* C8: the run reaches RolledOver if and only if the key-change response has
   status 200; any other key-change status ends it in Failed with that
   status and the decoded body surfaced.  Stated for the answers that carry
   a Replay-Nonce header, as every answer of an ACME server does. *)
C8_RolledOverIffStatus200 ==
    /\ \A i \in CallsOf("keyChange") :
        (Answered(i) /\ Has(HeadersOf(i), "Replay-Nonce")) =>
            (pc = "done" <=> StatusOf(i) = 200)
    /\ pc = "done" => CallsOf("keyChange") # {}
    /\ \A i \in CallsOf("keyChange") :
        (Answered(i) /\ StatusOf(i) # 200
            /\ Has(HeadersOf(i), "Replay-Nonce")) =>
            /\ pc = "failed"
            /\ error.type = "ValueError"
            /\ error.status = StatusOf(i)
            /\ error.body = ResponseJson(calls[i].response[1])

----------------------------------------------------------------------------
(* The orchestrator's state, read from what the run has established *)

(* line 113-151: Failed once an exception left account_rollover, RolledOver
   once line 151 is reached, AccountIdentified once the kid is installed
   (line 130), DirectoryResolved once acme_config is assigned (line 118) *)
OrchestratorState ==
    IF pc = "done" THEN "RolledOver"
    ELSE IF pc = "failed" THEN "Failed"
    ELSE IF Has(private_acme_old_signature, "kid") THEN "AccountIdentified"
    ELSE IF pc # "fetch_directory" /\ DirectoryFetched THEN "DirectoryResolved"
    ELSE "Init"

StateRank(state) ==
    CASE state = "Init" -> 0
      [] state = "DirectoryResolved" -> 1
      [] state = "AccountIdentified" -> 2
      [] state = "RolledOver" -> 3
      [] state = "Failed" -> 4

(* line 118-151: the order of the statements of account_rollover *)
PcRank(at) ==
    CASE at = "fetch_directory" -> 0
      [] at = "old_signature" -> 1
      [] at = "new_signature" -> 2
      [] at = "lookup" -> 3
      [] at = "inner" -> 4
      [] at = "key_change" -> 5
      [] at \in {"done", "failed", "blocked"} -> 6

(* C11: the orchestrator's state only moves forward along Init ->
   DirectoryResolved -> AccountIdentified -> RolledOver, to the next state
   and never past it or back, or from a non-terminal state to Failed; the
   statements of the run are executed in their order, none twice; no step
   is taken and nothing changes once RolledOver or Failed is reached. *)
C11_ForwardOnly ==
    [][/\ OrchestratorState \notin {"RolledOver", "Failed"}
       /\ PcRank(pc') > PcRank(pc)
       /\ \/ OrchestratorState' = OrchestratorState
          \/ OrchestratorState' = "Failed"
          \/ StateRank(OrchestratorState') = StateRank(OrchestratorState) + 1
      ]_vars

(* a run went through every state up to RolledOver *)
C11_Witness ==
    /\ OrchestratorState = "RolledOver"
    /\ Len(calls) = 4

----------------------------------------------------------------------------
(* Nonces *)

NonceGets == CallsOf("newNonce")

(* the nonce in the protected header of the signed POST i *)
NonceSent(i) == HeaderOf(calls[i].jose[1])["nonce"]

(* the Replay-Nonce of the answer to call i *)
NonceReceived(i) == HeadersOf(i)["Replay-Nonce"]

(* the signed POSTs before call i whose answer carried a Replay-Nonce *)
SuppliedBefore(i) ==
    {j \in Posts : j < i /\ Answered(j) /\ Has(HeadersOf(j), "Replay-Nonce")}

(* the inner JWS has no nonce, and signing it left the nonce and the list
   of network calls as the account lookup left them *)
InnerLeavesNonce ==
    /\ \A k \in 1..Len(signed) :
        signed[k].is_inner => ~Has(signed[k].protected, "nonce")
    /\ pc = "key_change" =>
        /\ Len(calls) \in CallsOf("newAccount")
        /\ nonce = <<NonceReceived(Len(calls))>>

(* C12 as claimed: an outer request is signed with the current nonce if a
   previous response supplied one, and otherwise with the Replay-Nonce of a
   newNonce GET; the newNonce GET happens at most once per run, before the
   first signed POST, and never after a response to a signed POST supplied
   a nonce; signing the inner JWS leaves the nonce alone. *)
C12_AsClaimed ==
    /\ \A i \in Posts :
        IF SuppliedBefore(i) # {}
        THEN \E j \in SuppliedBefore(i) :
                /\ \A k \in SuppliedBefore(i) : k <= j
                /\ NonceSent(i) = NonceReceived(j)
        ELSE /\ i - 1 \in NonceGets
             /\ NonceSent(i) = NonceReceived(i - 1)
    /\ Cardinality(NonceGets) <= 1
    /\ \A g \in NonceGets : \A i \in Posts : g < i
    /\ InnerLeavesNonce

(* C12 as amended: an outer request is signed with the current nonce if a
   previous response supplied a non-empty one, and otherwise (no response
   yet, or a response whose Replay-Nonce is the empty string) with the
   Replay-Nonce of a newNonce GET made for this signing; the GET happens
   before the account lookup and a second time, before the key change,
   exactly when the lookup's Replay-Nonce was the empty string, so never
   after a response supplied a non-empty nonce; signing the inner JWS
   leaves the nonce alone. *)
C12_NonceOrGet ==
    /\ \A i \in Posts :
        IF \E j \in SuppliedBefore(i) : NonceReceived(j) # ""
        THEN /\ i - 1 \in SuppliedBefore(i)
             /\ NonceSent(i) = NonceReceived(i - 1)
        ELSE /\ i - 1 \in NonceGets
             /\ Answered(i - 1)
             /\ NonceSent(i) = NonceReceived(i - 1)
    /\ Cardinality(NonceGets) <= 2
    /\ \A g \in NonceGets :
        /\ \A j \in SuppliedBefore(g) : NonceReceived(j) = ""
        /\ \A h \in NonceGets : h < g => SuppliedBefore(g) # {}
    /\ InnerLeavesNonce

(* the account lookup was answered with an empty Replay-Nonce and the key
   change was sent with the nonce of a second newNonce GET *)
C12_Witness ==
    /\ Cardinality(NonceGets) = 2
    /\ \E i \in CallsOf("keyChange") :
        /\ NonceReceived(i - 2) = ""
        /\ NonceSent(i) = NonceReceived(i - 1)
        /\ NonceSent(i) # ""

(* the answers of the run carry pairwise different Replay-Nonce values *)
ServerNoncesDistinct ==
    \A i, k \in 1..Len(calls) :
        (/\ i # k
         /\ Answered(i) /\ Has(HeadersOf(i), "Replay-Nonce")
         /\ Answered(k) /\ Has(HeadersOf(k), "Replay-Nonce"))
            => NonceReceived(i) # NonceReceived(k)

(* no nonce value is attached to two signed POSTs *)
NoNonceReuse == \A i, k \in Posts : i # k => NonceSent(i) # NonceSent(k)

(* C13 as claimed: when the server never issues the same nonce twice, the
   nonce of the key-change request is the Replay-Nonce of the answer to the
   account lookup, and no nonce value is attached to more than one
   request. *)
C13_AsClaimed ==
    ServerNoncesDistinct =>
        /\ \A i \in CallsOf("keyChange") :
            \E j \in CallsOf("newAccount") :
                j < i /\ NonceSent(i) = NonceReceived(j)
        /\ NoNonceReuse

(* C13 as amended: when the server never issues the same nonce twice, the
   nonce of the key-change request is the Replay-Nonce of the answer to the
   account lookup if that value is not the empty string, and otherwise the
   Replay-Nonce of a newNonce GET made after the lookup; either way no
   nonce value is attached to more than one request, and the nonce fetched
   for the account lookup is not the one of the key change. *)
C13_FreshNonce ==
    ServerNoncesDistinct =>
        /\ \A i \in CallsOf("keyChange") :
            \E j \in CallsOf("newAccount") :
                /\ j < i
                /\ IF NonceReceived(j) # ""
                   THEN NonceSent(i) = NonceReceived(j)
                   ELSE /\ i - 1 \in NonceGets
                        /\ j < i - 1
                        /\ NonceSent(i) = NonceReceived(i - 1)
                /\ NonceSent(i) # NonceSent(j)
        /\ NoNonceReuse

(* the key change was sent with the non-empty Replay-Nonce of the lookup,
   every answer of the run carrying a different nonce *)
C13_Witness ==
    /\ ServerNoncesDistinct
    /\ \E i \in CallsOf("keyChange") :
        /\ i - 1 \in CallsOf("newAccount")
        /\ NonceSent(i) = NonceReceived(i - 1)
        /\ NonceSent(i) # ""
        /\ Answered(i) /\ Has(HeadersOf(i), "Replay-Nonce")

(* C14: a signed POST answered without a Replay-Nonce header makes the run
   fail, whatever the status of the answer, a 200 to the key change
   included; the POST is the last network call of the run, so no nonce is
   fetched to recover, and the nonce, the kid and the last response are
   those from before the POST. *)
C14_MissingReplayNonceFails ==
    \A i \in Posts :
        (Answered(i) /\ ~Has(HeadersOf(i), "Replay-Nonce")) =>
            /\ pc = "failed"
            /\ error.type \in {"KeyError", "RuntimeError"}
            /\ i = Len(calls)
            /\ calls[i].step = "newAccount" =>
                /\ ~Has(private_acme_old_signature, "kid")
                /\ http_response = <<>>
                /\ ~NonceTruthy(nonce)
            /\ calls[i].step = "keyChange" =>
                /\ http_response = calls[i - 1].response
                    \/ http_response = calls[i - 2].response
                /\ http_response # calls[i].response

(* the key change was answered 200 without a Replay-Nonce header and the
   run failed on it *)
C14_Witness ==
    /\ pc = "failed"
    /\ \E i \in CallsOf("keyChange") :
        /\ Answered(i)
        /\ StatusOf(i) = 200
        /\ ~Has(HeadersOf(i), "Replay-Nonce")
        /\ i = Len(calls)

(* C15: the url of the protected header of every signed POST is the URL the
   POST is sent to; for the key change the url of the inner JWS, the url of
   the outer JWS and the target of the POST are all the keyChange URL of
   the directory. *)
C15_HeaderUrlIsTarget ==
    /\ \A i \in Posts :
        /\ calls[i].jose # <<>>
        /\ HeaderOf(calls[i].jose[1])["url"] = calls[i].url
    /\ \A i \in CallsOf("newAccount") : calls[i].url = acme_config["newAccount"]
    /\ \A i \in CallsOf("keyChange") :
        LET outer == calls[i].jose[1]
            inner == PayloadOf(outer)
        IN  /\ calls[i].url = acme_config["keyChange"]
            /\ HeaderOf(outer)["url"] = acme_config["keyChange"]
            /\ HeaderOf(inner)["url"] = acme_config["keyChange"]
            /\ inner = inner_payload[1]

(* both signed POSTs were sent, to two different URLs *)
C15_Witness ==
    /\ CallsOf("newAccount") # {}
    /\ CallsOf("keyChange") # {}
    /\ acme_config["newAccount"] # acme_config["keyChange"]

(* the outcome of the two steps as a function of status and headers, the
   body not consulted: the kid is installed exactly by a lookup answered
   200 with Replay-Nonce and Location, RolledOver is reached exactly by a
   key change answered 200 with Replay-Nonce, and any other answer fails
   the run *)
OutcomeIgnoresBody ==
    /\ \A j \in CallsOf("newAccount") :
        Answered(j) =>
            IF StatusOf(j) = 200 /\ Has(HeadersOf(j), "Replay-Nonce")
                    /\ Has(HeadersOf(j), "Location")
            THEN KidInstalledFrom(j)
            ELSE pc = "failed" /\ j = Len(calls)
                    /\ ~Has(private_acme_old_signature, "kid")
    /\ \A i \in CallsOf("keyChange") :
        Answered(i) =>
            IF StatusOf(i) = 200 /\ Has(HeadersOf(i), "Replay-Nonce")
            THEN pc = "done" /\ error.type = "none"
            ELSE pc = "failed"

(* C16 as claimed: an empty or non-JSON body is no error by itself; the
   decoded body is then an empty object, and the step's outcome follows
   from the status (and headers) of the answer alone, the same for a JSON,
   a non-JSON and an empty body. *)
C16_AsClaimed ==
    /\ (http_response # <<>> /\ http_response[1].body # "json") =>
            (PyType(result) = "dict" /\ PyValue(result) = EmptyDict)
    /\ OutcomeIgnoresBody

(* C16 as amended: an empty or non-JSON body is no error by itself; the
   decoded body is then the text "{}", a string and not an object, and the
   step's outcome follows from the status (and headers) of the answer
   alone, the same for a JSON, a non-JSON and an empty body. *)
C16_BodyNeverDecides ==
    /\ http_response # <<>> =>
        IF http_response[1].body = "json"
        THEN PyType(result) = "dict"
        ELSE PyType(result) = "str" /\ PyValue(result) = "{}"
    /\ OutcomeIgnoresBody

(* Keys rolled over on a lookup answered with a non-JSON body and a key
   change answered with an empty body *)
C16_Witness ==
    /\ pc = "done"
    /\ \E j \in CallsOf("newAccount") : calls[j].response[1].body = "nonjson"
    /\ \E i \in CallsOf("keyChange") : calls[i].response[1].body = "empty"
    /\ result = PyStr("{}")

----------------------------------------------------------------------------
(* Termination *)

(* The servers of the termination argument: one directory URL per key, any
   of the keys possibly missing; answers with one nonce value, an empty one
   or none, with or without the Location, of every status and with a JSON
   or an empty body; failed connections; silence. *)
FairDirectories ==
    {d \in Directories :
        /\ Has(d, "newAccount") => d["newAccount"] = "https://acme/a"
        /\ Has(d, "keyChange") => d["keyChange"] = "https://acme/b"}

FairHeaders ==
    {h \in HeaderSets :
        /\ Has(h, "Replay-Nonce") => h["Replay-Nonce"] \in {"", "nonce1"}
        /\ Has(h, "Location") => h["Location"] = "https://acme/acct/1"}

FairGets ==
    {<<>>, NeverAnswers}
        \cup {<<r>> : r \in {x \in NonceResponses : x.headers \in FairHeaders}}

FairPosts ==
    {<<>>, NeverAnswers}
        \cup {<<r>> : r \in {x \in Responses : /\ x.headers \in FairHeaders
                                               /\ x.body # "nonjson"}}

FairNext ==
    \/ FetchDirectoryFrom(FairDirectories)
    \/ GetOldSignature
    \/ GetNewSignature
    \/ LookupAccountWith(FairGets, FairPosts)
    \/ SignInner
    \/ KeyChangeWith(FairGets, FairPosts)

(* the run is one thread of control: once started, its next statement is
   executed unless the call in progress never returns *)
FairSpec == Init /\ [][FairNext]_vars /\ WF_vars(FairNext)

Terminated == pc \in {"done", "failed"}

(* a call the server never answered, made with a timeout, ended the run as
   a transport failure; made without one, it is where the run still waits;
   either way it is the last call of the run *)
UnansweredCallEndsRun ==
    \A i \in 1..Len(calls) :
        IsSilent(calls[i].response) =>
            /\ i = Len(calls)
            /\ IF timeout # <<>>
               THEN /\ pc = "failed"
                    /\ error.type \in {"RequestException", "RuntimeError"}
               ELSE pc = "blocked" /\ error.type = "none"

(* C17: with a non-zero --timeout every run ends in RolledOver or Failed,
   whatever the server does at each network call (answer, answer with an
   error, fail the connection, never answer): an unanswered call ends the
   run as a transport failure and is not repeated.  A --timeout of 0 reaches
   account_rollover as None, and a run waits forever only under it. *)
C17_Terminates ==
    /\ (timeout_arg # 0) ~> Terminated
    /\ [](timeout_arg # 0 => pc # "blocked")
    /\ [](timeout_arg = 0 => timeout = <<>>)
    /\ []UnansweredCallEndsRun

(* the server never answered the key-change POST of a run with a timeout,
   and the run failed on it *)
C17_Witness ==
    /\ timeout_arg # 0
    /\ pc = "failed"
    /\ \E i \in CallsOf("keyChange") : IsSilent(calls[i].response)

----------------------------------------------------------------------------
(* _sign_request on its own: the closure applied to any url, key path,
   payload and is_inner, in any state of the enclosing run *)

PayloadKinds == {"sentinel", "text", "object"}

PayloadOfKind(kind) ==
    CASE kind = "sentinel" -> PyStr("")
      [] kind = "text" -> PyStr("x")
      [] kind = "object" -> PyDict([onlyReturnExisting |-> TRUE])

SignKeyPaths == KeyPaths \cup {"other.key"}

SignDirectories ==
    {d \in Directories :
        /\ DOMAIN d \in {{"keyChange"}, {"keyChange", "newNonce"},
                         {"keyChange", "newAccount"}, DirKeys}
        /\ d["keyChange"] = "https://acme/b"
        /\ Has(d, "newAccount") => d["newAccount"] = "https://acme/a"}

SignInit ==
    /\ pc = "sign"
    /\ old_accountkeypath = "account.key"
    /\ new_accountkeypath \in KeyPaths
    /\ timeout_arg \in TimeoutArgs
    /\ timeout = MainTimeout(timeout_arg)
    /\ acme_config \in SignDirectories
    /\ \E kid \in {<<>>, <<"https://acme/acct/1">>} :
        /\ private_acme_old_signature =
            IF kid = <<>>
            THEN _get_private_acme_signature(old_accountkeypath)
            ELSE Put(_get_private_acme_signature(old_accountkeypath),
                     "kid", kid[1])
        /\ private_acme_new_signature =
            IF kid = <<>>
            THEN _get_private_acme_signature(new_accountkeypath)
            ELSE Put(_get_private_acme_signature(new_accountkeypath),
                     "kid", kid[1])
    /\ nonce \in {<<>>, <<"nonce1">>}
    /\ http_response = <<>>
    /\ result = PyNone
    /\ inner_payload = <<>>
    /\ error = NoError
    /\ calls = <<>>
    /\ signed = <<>>
    /\ accountKey = _get_private_acme_signature(old_accountkeypath).jwk

(* one call of _sign_request has given s; calls, signed and error are those
   of this call, and the next call follows unless this one never returns *)
SignCallStep(s) ==
    /\ error' = Exception(s.error)
    /\ calls' = s.calls
    /\ signed' = s.signed
    /\ private_acme_old_signature' = s.old_identity
    /\ private_acme_new_signature' = s.new_identity
    /\ pc' = IF s.error.type = "waiting" THEN "blocked" ELSE "sign"

SignCall ==
    /\ pc = "sign"
    /\ \E url \in Urls, keypath \in SignKeyPaths, kind \in PayloadKinds,
          is_inner \in BOOLEAN, getOut \in GetChoices(FairGets),
          sslOk \in BOOLEAN :
        SignCallStep(_sign_request(url, keypath, PayloadOfKind(kind),
                                   is_inner, getOut, sslOk))
    /\ UNCHANGED <<argvars, acme_config, nonce, http_response, result,
                   inner_payload, accountKey>>

SignNext == SignCall

SignSpec == SignInit /\ [][SignNext]_vars

(* the JWS messages _sign_request returned *)
Returned == {k \in 1..Len(signed) : signed[k].jose # <<>>}

(* C18: _sign_request called with the empty-string payload returns a JWS
   whose payload field is the empty text, and called with any other payload
   one whose payload field is the base64url encoding of the payload's JSON
   text; in both cases the protected field is the base64url encoding of the
   header's JSON text and the signature is made by the given key over the
   protected field, a dot and the payload field. *)
C18_PayloadField ==
    \A k \in Returned :
        LET jose == signed[k].jose[1]
        IN  /\ jose.payload = IF signed[k].payload = PyStr("")
                              THEN <<>>
                              ELSE _b64(JsonDumps(signed[k].payload))
            /\ jose.protected = _b64(JsonDumps(signed[k].protected))
            /\ jose.signature = _b64(OpensslDgstSign(signed[k].keypath,
                    <<jose.protected, ".", jose.payload>>))

(* _sign_request returned a JWS for the empty-string payload *)
C18_Witness ==
    \E k \in Returned :
        /\ signed[k].payload = PyStr("")
        /\ signed[k].jose[1].payload = <<>>
        /\ ~signed[k].is_inner

----------------------------------------------------------------------------
(* C19: in a run _sign_request is only called with the old or the new key
   path, for any pair of paths, equal ones included, so its unknown-key
   RuntimeError is never raised; the requests POSTed to the server are
   signed with the old key, the inner JWS is signed with the new key, and
   nothing else is signed with the new key (when the two paths are the same
   file, that one key is both). *)
C19_KnownKeysOnly ==
    /\ error # UnknownKeyError
    /\ \A k \in 1..Len(signed) :
        /\ signed[k].keypath \in {old_accountkeypath, new_accountkeypath}
        /\ signed[k].is_inner => signed[k].keypath = new_accountkeypath
        /\ ~signed[k].is_inner => signed[k].keypath = old_accountkeypath
        /\ (signed[k].keypath = new_accountkeypath
                /\ new_accountkeypath # old_accountkeypath)
            => signed[k].is_inner
    /\ \A i \in Posts :
        LET jose == calls[i].jose[1]
        IN  jose.signature = _b64(OpensslDgstSign(old_accountkeypath,
                                <<jose.protected, ".", jose.payload>>))
    /\ inner_payload # <<>> =>
        inner_payload[1].signature =
            _b64(OpensslDgstSign(new_accountkeypath,
                <<inner_payload[1].protected, ".", inner_payload[1].payload>>))

(* the three signatures of a run were made, both paths naming one file *)
C19_Witness ==
    /\ Len(signed) = 3
    /\ CallsOf("keyChange") # {}
    /\ old_accountkeypath = new_accountkeypath

----------------------------------------------------------------------------
(* the Location of the answer to the last network call, <<>> without one *)
LastLocation ==
    IF /\ calls # <<>>
       /\ Answered(Len(calls))
       /\ Has(HeadersOf(Len(calls)), "Location")
    THEN <<HeadersOf(Len(calls))["Location"]>>
    ELSE <<>>

(* the step installs the Location of the lookup's answer as kid on both
   identities and touches nothing else of them *)
KidInstalled ==
    /\ LastLocation' # <<>>
    /\ calls'[Len(calls')].step = "newAccount"
    /\ private_acme_old_signature' =
            Put(private_acme_old_signature, "kid", LastLocation'[1])
    /\ private_acme_new_signature' =
            Put(private_acme_new_signature, "kid", LastLocation'[1])

(* C20: signing leaves the stored Signing Identities as they were: the
   steps that sign (account lookup, inner JWS, key change) change neither
   identity, except that the account lookup answered 200 installs the kid
   on both, which is the only write to an identity after its creation; the
   headers sent carry nonce and url while the identities never do, and the
   old identity keeps its jwk once the kid is set, which is the oldKey of
   the inner payload. *)
C20_SigningKeepsIdentities ==
    /\ [][/\ pc \in {"fetch_directory", "inner", "key_change"}
                => idvars' = idvars
          /\ pc = "old_signature" =>
                /\ private_acme_new_signature' = private_acme_new_signature
                /\ private_acme_old_signature' \in
                        {private_acme_old_signature,
                         _get_private_acme_signature(old_accountkeypath)}
          /\ pc = "new_signature" =>
                /\ private_acme_old_signature' = private_acme_old_signature
                /\ private_acme_new_signature' \in
                        {private_acme_new_signature,
                         _get_private_acme_signature(new_accountkeypath)}
          /\ pc = "lookup" =>
                IF pc' = "inner"
                THEN KidInstalled
                ELSE idvars' = idvars
         ]_vars
    /\ [](/\ DOMAIN private_acme_old_signature \subseteq {"alg", "jwk", "kid"}
          /\ DOMAIN private_acme_new_signature \subseteq {"alg", "jwk", "kid"}
          /\ Has(private_acme_old_signature, "kid") =>
                /\ private_acme_old_signature["jwk"] = OldJwk
                /\ private_acme_old_signature["alg"] = "RS256"
                /\ private_acme_new_signature["jwk"] = NewJwk
          /\ inner_payload # <<>> =>
                PayloadOf(inner_payload[1]).oldKey
                    = private_acme_old_signature["jwk"])

(* the three signatures of a run were made after the kid was installed on
   the identities, which still hold their jwk *)
C20_Witness ==
    /\ pc = "done"
    /\ Len(signed) = 3
    /\ DOMAIN private_acme_old_signature = {"alg", "jwk", "kid"}
    /\ DOMAIN private_acme_new_signature = {"alg", "jwk", "kid"}
    /\ Has(signed[3].protected, "nonce")

====
